---- MODULE Spec2Model ----
(***************************************************************************)
(* Model of the ensemble fraud scoring engine of SENTINAL                  *)
(* (backend/core/fraud_detector.py, class FraudDetector).                  *)
(*                                                                         *)
(* Numbers.  Every probability / score is an exact rational kept as an     *)
(* integer number of 1/Unit, Unit = 12000, so that the means over 1..3     *)
(* models and 1..4 triggered rules, the 0.7/0.3 weighting and the          *)
(* (1 + 0.1 n) multiplier are all exact: 0.1 is 1200, 0.5 is 6000.         *)
(*                                                                         *)
(* Dictionaries are functions with a string domain; "key in d" is          *)
(* key \in DOMAIN d.  An operator that models a Python function returns    *)
(* either the function's value or Raise(type), the exception leaving it.   *)
(***************************************************************************)
EXTENDS Integers, Sequences, FiniteSets, TLC

VARIABLES
    models,               \* self.models: insertion-ordered dict, <<[name, kind]>>
    preprocessor,         \* self.preprocessor: its fitted state
    prediction_count,     \* self.prediction_count
    avg_prediction_time,  \* self.avg_prediction_time, in 1/12 ms
    pc,                   \* position of the detect_fraud call
    transaction_data,     \* argument of the call in progress
    processed_data,       \* which preprocessing produced the feature vector
    tasks,                \* the (name, model) pairs the prediction tasks were created with
    result,               \* what the caller of detect_fraud received
    tp,                   \* a TransactionPreprocessor: scalers, encoders, feature_names, is_fitted
    df,                   \* the frame last given to tp.transform
    transformed,          \* what tp.transform returned for df
    calls,                \* the detect_fraud calls that share the engine, by call
    scaler,               \* what the scaler of the registered AutoencoderModel was last fitted on
    finished,             \* the prediction tasks of the call that have returned
    phases,               \* the phases the call in progress has entered, in order
    batch,                \* the rows of the frame last given to tp.transform
    vectors,              \* the per-row features tp.transform derived from batch
    transaction_history,  \* VelocityChecker.transaction_history: user_id -> list of timestamps
    lock,                 \* VelocityChecker.lock: the thread that holds it, 0 when free
    threads               \* the threads calling VelocityChecker.detect, by thread

\* the engine, and the preprocessor of backend/models/preprocessor.py
engineVars == <<models, preprocessor, prediction_count, avg_prediction_time, pc,
                transaction_data, processed_data, tasks, result>>

prepVars == <<tp, df, transformed>>

\* the call seen phase by phase, with the scaler the anomaly model carries
phaseVars == <<scaler, finished, phases>>

\* the numerical side of TransactionPreprocessor.transform
aggVars == <<batch, vectors>>

\* the VelocityChecker plugin of plugins/examples/velocity_checker.py
velVars == <<transaction_history, lock, threads>>

otherVars == <<phaseVars, aggVars, velVars>>

vars == <<models, preprocessor, prediction_count, avg_prediction_time, pc,
          transaction_data, processed_data, tasks, result, tp, df, transformed, calls,
          scaler, finished, phases, batch, vectors, transaction_history, lock, threads>>

----------------------------------------------------------------------------
(* Bounds and scales *)

MaxCalls == 1

\* detect_fraud calls that can be in flight together
NumCalls == 3

Unit == 12 * 1000

P(tenths) == tenths * (Unit \div 10)

FRAUD_THRESHOLD == 8400

----------------------------------------------------------------------------
(* Exceptions *)

Raise(type) == [exception |-> type, message |-> ""]

IsRaise(x) == "exception" \in DOMAIN x

----------------------------------------------------------------------------
(* Transactions: a dict whose keys may be absent, None, or hold a value.   *)

Absent == [k |-> "absent", v |-> 0]

Null == [k |-> "null", v |-> 0]

Num(n) == [k |-> "num", v |-> n]

Str(n) == [k |-> "str", v |-> n]

AmountValues == {Null, Num(50), Num(15000)}

\* (latitude, longitude)
LocationValues ==
    {<<Absent, Absent>>, <<Null, Num(100)>>, <<Num(45), Absent>>, <<Str(45), Num(100)>>,
     <<Num(45), Num(100)>>, <<Num(95), Num(100)>>}

IpValues == {Absent, Str(1)}

\* timestamp: absent, a string fromisoformat rejects, or a time at hour v
TimestampValues == {[k |-> "bad", v |-> 0], [k |-> "ok", v |-> 3], [k |-> "ok", v |-> 12]}

MerchantValues == {[k |-> "null", v |-> ""],
                   [k |-> "str", v |-> "gambling"], [k |-> "str", v |-> "retail"]}

Transactions ==
    {[amount |-> a, latitude |-> loc[1], longitude |-> loc[2], ip_address |-> ip,
      timestamp |-> ts, merchant_category |-> mc] :
        a \in AmountValues, loc \in LocationValues, ip \in IpValues,
        ts \in TimestampValues, mc \in MerchantValues}

NoTransaction ==
    [amount |-> Absent, latitude |-> Absent, longitude |-> Absent,
     ip_address |-> Absent, timestamp |-> Absent,
     merchant_category |-> [k |-> "absent", v |-> ""]]

\* dict.get(key) is None
IsNone(f) == f.k \in {"absent", "null"}

\* float(dict.get(key, 0)): None is not convertible
FloatOf(f) ==
    IF f.k = "null" THEN Raise("TypeError")
    ELSE IF f.k = "absent" THEN [value |-> 0]
    ELSE [value |-> f.v]

----------------------------------------------------------------------------
(* Preprocessing *)

\* DataPreprocessor.transform: fails when unfitted and on a malformed
\* timestamp; a missing numeric value (amount None) is imputed with zero
PreprocessorTransform(fitted, t) ==
    IF ~fitted THEN Raise("NotFitted")
    ELSE IF t.timestamp.k = "bad" THEN Raise("InvalidInput")
    ELSE [features |-> "fitted"]

_basic_preprocessing(t) ==
    IF IsRaise(FloatOf(t.amount)) THEN Raise("TypeError")
    ELSE IF t.timestamp.k = "bad" THEN Raise("ValueError")
    ELSE IF IsRaise(FloatOf(t.latitude)) THEN Raise("TypeError")
    ELSE IF IsRaise(FloatOf(t.longitude)) THEN Raise("TypeError")
    ELSE [features |-> "basic"]

_preprocess_transaction(fitted, t) ==
    LET r == PreprocessorTransform(fitted, t)
    IN  IF IsRaise(r) THEN _basic_preprocessing(t) ELSE r

----------------------------------------------------------------------------
(* The rule battery *)

\* the upper tier opened at the boundary: amount >= 10000
_amount_threshold_rule_Inclusive(t) ==
    LET amount == FloatOf(t.amount)
    IN  IF IsRaise(amount) THEN amount
        ELSE IF amount.value >= 10000
             THEN [triggered |-> TRUE, risk_score |-> P(8), reason |-> "High amount"]
        ELSE IF amount.value > 5000
             THEN [triggered |-> TRUE, risk_score |-> P(6), reason |-> "Unusual amount"]
        ELSE [triggered |-> FALSE, risk_score |-> P(1), reason |-> "Amount within normal range"]

_amount_threshold_rule(t) ==
    LET amount == FloatOf(t.amount)
    IN  IF IsRaise(amount) THEN amount
        ELSE IF amount.value > 10000
             THEN [triggered |-> TRUE, risk_score |-> P(8), reason |-> "High amount"]
        ELSE IF amount.value > 5000
             THEN [triggered |-> TRUE, risk_score |-> P(6), reason |-> "Unusual amount"]
        ELSE [triggered |-> FALSE, risk_score |-> P(1), reason |-> "Amount within normal range"]

_velocity_rule(t) ==
    [triggered |-> FALSE, risk_score |-> P(2), reason |-> "Velocity check passed"]

\* abs(x) > limit; abs of a str raises
AbsExceeds(f, limit) ==
    IF f.k = "str" THEN Raise("TypeError")
    ELSE [value |-> (IF f.v < 0 THEN 0 - f.v ELSE f.v) > limit]

\* the range test without abs(): lat > 90 or lon > 180
_location_rule_NoAbs(t) ==
    LET lat == t.latitude
        lon == t.longitude
    IN  IF IsNone(lat) \/ IsNone(lon)
        THEN [triggered |-> TRUE, risk_score |-> P(7), reason |-> "Missing location data"]
        ELSE IF lat.k = "str" \/ lon.k = "str" THEN Raise("TypeError")
        ELSE IF lat.v > 90 \/ lon.v > 180
             THEN [triggered |-> TRUE, risk_score |-> P(9), reason |-> "Invalid coordinates"]
        ELSE [triggered |-> FALSE, risk_score |-> P(1), reason |-> "Location data valid"]

_location_rule(t) ==
    LET lat == t.latitude
        lon == t.longitude
        badLat == AbsExceeds(lat, 90)
        badLon == AbsExceeds(lon, 180)
    IN  IF IsNone(lat) \/ IsNone(lon)
        THEN [triggered |-> TRUE, risk_score |-> P(7), reason |-> "Missing location data"]
        ELSE IF IsRaise(badLat) THEN badLat
        ELSE IF badLat.value
             THEN [triggered |-> TRUE, risk_score |-> P(9), reason |-> "Invalid coordinates"]
        ELSE IF IsRaise(badLon) THEN badLon
        ELSE IF badLon.value
             THEN [triggered |-> TRUE, risk_score |-> P(9), reason |-> "Invalid coordinates"]
        ELSE [triggered |-> FALSE, risk_score |-> P(1), reason |-> "Location data valid"]

\* the unusual-hour window opened one hour later
_time_pattern_rule_After3(t) ==
    LET timestamp == t.timestamp
    IN  IF IsNone(timestamp)
        THEN [triggered |-> TRUE, risk_score |-> P(6), reason |-> "Missing timestamp"]
        ELSE IF timestamp.k = "bad" THEN Raise("ValueError")
        ELSE IF 3 < timestamp.v /\ timestamp.v <= 5
             THEN [triggered |-> TRUE, risk_score |-> P(5), reason |-> "Unusual hour"]
        ELSE [triggered |-> FALSE, risk_score |-> P(1), reason |-> "Normal time pattern"]

_time_pattern_rule(t) ==
    LET timestamp == t.timestamp
    IN  IF IsNone(timestamp)
        THEN [triggered |-> TRUE, risk_score |-> P(6), reason |-> "Missing timestamp"]
        ELSE IF timestamp.k = "bad" THEN Raise("ValueError")
        ELSE IF 2 <= timestamp.v /\ timestamp.v <= 5
             THEN [triggered |-> TRUE, risk_score |-> P(5), reason |-> "Unusual hour"]
        ELSE [triggered |-> FALSE, risk_score |-> P(1), reason |-> "Normal time pattern"]

high_risk_categories == {"gambling", "cryptocurrency", "adult", "pharmacy"}

\* the categories of MerchantValues are lower-case words, so "cat in
\* merchant_category.lower()" for some cat is membership; .lower() of None
\* raises

_merchant_risk_rule(t) ==
    LET mc == t.merchant_category
    IN  IF mc.k = "null" THEN Raise("AttributeError")
        ELSE IF mc.k = "str" /\ mc.v \in high_risk_categories
             THEN [triggered |-> TRUE, risk_score |-> P(7), reason |-> "High-risk merchant category"]
        ELSE [triggered |-> FALSE, risk_score |-> P(1), reason |-> "Standard merchant category"]

\* self.rules after _load_rules, by __name__
rules ==
    <<"_amount_threshold_rule", "_velocity_rule", "_location_rule",
      "_time_pattern_rule", "_merchant_risk_rule">>

\* await rule(transaction_data)
CallRule(rule_name, t) ==
    CASE rule_name = "_amount_threshold_rule" -> _amount_threshold_rule(t)
      [] rule_name = "_velocity_rule" -> _velocity_rule(t)
      [] rule_name = "_location_rule" -> _location_rule(t)
      [] rule_name = "_time_pattern_rule" -> _time_pattern_rule(t)
      [] rule_name = "_merchant_risk_rule" -> _merchant_risk_rule(t)

\* the for loop of _run_rules, from rule i on, rule_results so far; the inner
\* try catches every Exception a rule raises, so nothing reaches the outer one
RECURSIVE RunRulesFrom(_, _, _)
RunRulesFrom(i, t, rule_results) ==
    IF i > Len(rules) THEN rule_results
    ELSE LET rule_name == rules[i]
             r == CallRule(rule_name, t)
             entry == IF IsRaise(r) THEN [error |-> r.exception] ELSE r
         IN  RunRulesFrom(i + 1, t, (rule_name :> entry) @@ rule_results)

\* the loop without the per-rule try: the first exception ends the loop in
\* the outer handler, which records its message under 'error'
RECURSIVE RunRulesFrom_Abort(_, _, _)
RunRulesFrom_Abort(i, t, rule_results) ==
    IF i > Len(rules) THEN rule_results
    ELSE LET r == CallRule(rules[i], t)
         IN  IF IsRaise(r) THEN ("error" :> [str |-> "rule failed"]) @@ rule_results
             ELSE RunRulesFrom_Abort(i + 1, t, (rules[i] :> r) @@ rule_results)

_run_rules_Abort(t) == RunRulesFrom_Abort(1, t, <<>>)

_run_rules(t) == RunRulesFrom(1, t, <<>>)

----------------------------------------------------------------------------
(* Model inference *)

ModelNames == <<"autoencoder", "lstm", "ensemble">>

\* a model object: "proba" has predict_proba, "regress" has predict only.
\* The anomaly model and the sequence model expose predict only
\* (AutoencoderModel.predict); the object in ensemble.joblib is a classifier.
KindOf(name) == IF name = "ensemble" THEN "proba" ELSE "regress"

Model(name) == [name |-> name, kind |-> KindOf(name)]

\* what model.predict_proba / model.predict does on the feature vector:
\* it raises, or returns the number float() extracts from its first row
ProbaOutputs == {[raised |-> TRUE, v |-> 0], [raised |-> FALSE, v |-> P(7)]}

RegressOutputs == {[raised |-> TRUE, v |-> 0], [raised |-> FALSE, v |-> 0 - P(5)], [raised |-> FALSE, v |-> P(15)]}

ModelOutputs(kind) == IF kind = "proba" THEN ProbaOutputs ELSE RegressOutputs

_predict_with_model(model, out) ==
    IF out.raised THEN [error |-> "prediction failed"]
    ELSE IF model.kind = "proba"
         THEN [fraud_probability |-> out.v, confidence_score |-> out.v]
    ELSE [fraud_probability |-> out.v, confidence_score |-> P(8)]

\* 'error' in msg, for the str(e) the fan-in can leave behind: the message
\* of IndexError, "list index out of range", does not contain it
ContainsError(msg) == msg # "list index out of range"

\* the "Process results" loop of _run_ml_models over the current self.models,
\* from entry i on; results is what gather returned for the tasks
RECURSIVE ProcessResultsFrom(_, _, _, _)
ProcessResultsFrom(i, cur, results, predictions) ==
    IF i > Len(cur) THEN predictions
    ELSE IF i > Len(results)
         THEN ("error" :> [str |-> "list index out of range"]) @@ predictions
    ELSE LET entry == IF IsRaise(results[i]) THEN [error |-> results[i].exception]
                      ELSE results[i]
         IN  ProcessResultsFrom(i + 1, cur, results, (cur[i].name :> entry) @@ predictions)

\* _run_ml_models after the tasks were created: outs[i] is the behaviour of
\* the model of task i, cur is self.models when gather has returned
_run_ml_models(created, outs, cur) ==
    LET results == [i \in 1..Len(created) |-> _predict_with_model(created[i], outs[i])]
    IN  ProcessResultsFrom(1, cur, results, <<>>)

----------------------------------------------------------------------------
(* Combination *)

RECURSIVE SumOver(_, _)
SumOver(S, f) ==
    IF S = {} THEN 0
    ELSE LET x == CHOOSE y \in S : TRUE IN f[x] + SumOver(S \ {x}, f)

\* np.mean of the values f[x], x in S (S non-empty)
Mean(S, f) == SumOver(S, f) \div Cardinality(S)

\* 'error' in pred, for a dict (key test) and for a str (substring test)
HasError(pred) ==
    IF "str" \in DOMAIN pred THEN ContainsError(pred.str) ELSE "error" \in DOMAIN pred

\* pred.get(...) raises AttributeError on a str
IsStrEntry(pred) == "str" \in DOMAIN pred

\* the comparison with >= in place of >
IsFraud_AtLeast(final_fraud_prob) == final_fraud_prob >= FRAUD_THRESHOLD

IsFraud(final_fraud_prob) == final_fraud_prob > FRAUD_THRESHOLD

\* a fallback that reports probability 0
FallbackPrediction_Zero ==
    [fraud_probability |-> 0, risk_score |-> P(5), confidence_score |-> P(5),
     is_fraud |-> FALSE, method |-> "fallback"]

FallbackPrediction ==
    [fraud_probability |-> P(5), risk_score |-> P(5), confidence_score |-> P(5),
     is_fraud |-> FALSE, method |-> "fallback"]

MLWeight == 7

RuleWeight == 3

\* the names whose prediction enters ml_probs / ml_confidences
MLVoters(ml_predictions) == {m \in DOMAIN ml_predictions : ~HasError(ml_predictions[m])}

\* the rules whose risk_score enters rule_scores
RuleVoters(rule_predictions) ==
    {r \in DOMAIN rule_predictions :
        /\ ~HasError(rule_predictions[r])
        /\ rule_predictions[r].triggered}

\* no usable model read as certain fraud
MLAggregate_NoneIsOne(ml_predictions) ==
    LET voters == MLVoters(ml_predictions)
    IN  IF voters # {}
        THEN Mean(voters, [m \in voters |-> ml_predictions[m].fraud_probability])
        ELSE P(10)

\* the mean taken over every model, an errored one counting as 0
MLAggregate_ErrorsAsZero(ml_predictions) ==
    LET all == DOMAIN ml_predictions
    IN  IF all # {}
        THEN Mean(all, [m \in all |-> IF HasError(ml_predictions[m]) THEN 0
                                      ELSE ml_predictions[m].fraud_probability])
        ELSE P(5)

\* ml_fraud_prob
MLAggregate(ml_predictions) ==
    LET voters == MLVoters(ml_predictions)
    IN  IF voters # {}
        THEN Mean(voters, [m \in voters |-> ml_predictions[m].fraud_probability])
        ELSE P(5)

\* the confidence taken over every model, an errored one counting as 0
MLConfidence_ErrorsAsZero(ml_predictions) ==
    LET all == DOMAIN ml_predictions
    IN  IF all # {}
        THEN Mean(all, [m \in all |-> IF HasError(ml_predictions[m]) THEN 0
                                      ELSE ml_predictions[m].confidence_score])
        ELSE P(5)

\* ml_confidence
MLConfidence(ml_predictions) ==
    LET voters == MLVoters(ml_predictions)
    IN  IF voters # {}
        THEN Mean(voters, [m \in voters |-> ml_predictions[m].confidence_score])
        ELSE P(5)

\* the mean taken over every rule that returned, triggered or not
RuleAggregate_AllRules(rule_predictions) ==
    LET returned == {r \in DOMAIN rule_predictions : ~HasError(rule_predictions[r])}
    IN  IF returned # {}
        THEN Mean(returned, [r \in returned |-> rule_predictions[r].risk_score])
        ELSE P(1)

\* rule_risk_score
RuleAggregate(rule_predictions) ==
    LET triggered == RuleVoters(rule_predictions)
    IN  IF triggered # {}
        THEN Mean(triggered, [r \in triggered |-> rule_predictions[r].risk_score])
        ELSE P(1)

\* the two weights exchanged
WeightedCombination_Swapped(ml_fraud_prob, rule_risk_score) ==
    (RuleWeight * ml_fraud_prob + MLWeight * rule_risk_score) \div 10

\* final_fraud_prob
WeightedCombination(ml_fraud_prob, rule_risk_score) ==
    (MLWeight * ml_fraud_prob + RuleWeight * rule_risk_score) \div 10

\* the combiner without its try/except: the AttributeError of pred.get on a
\* str entry leaves it
_ensemble_predictions_NoCatch(ml_predictions, rule_predictions) ==
    LET ml_fraud_prob == MLAggregate(ml_predictions)
        rule_risk_score == RuleAggregate(rule_predictions)
        final_fraud_prob == WeightedCombination(ml_fraud_prob, rule_risk_score)
    IN  IF \E m \in MLVoters(ml_predictions) : IsStrEntry(ml_predictions[m])
        THEN Raise("AttributeError")
        ELSE [fraud_probability |-> final_fraud_prob,
              risk_score |-> rule_risk_score,
              confidence_score |-> MLConfidence(ml_predictions),
              is_fraud |-> IsFraud(final_fraud_prob),
              method |-> "ensemble"]

_ensemble_predictions(ml_predictions, rule_predictions) ==
    LET voters == MLVoters(ml_predictions)
        ml_fraud_prob == MLAggregate(ml_predictions)
        ml_confidence == MLConfidence(ml_predictions)
        rule_risk_score == RuleAggregate(rule_predictions)
        final_fraud_prob == WeightedCombination(ml_fraud_prob, rule_risk_score)
    IN  IF \E m \in voters : IsStrEntry(ml_predictions[m])
        THEN FallbackPrediction
        ELSE IF \E r \in DOMAIN rule_predictions :
                    ~HasError(rule_predictions[r]) /\ IsStrEntry(rule_predictions[r])
        THEN FallbackPrediction
        ELSE [fraud_probability |-> final_fraud_prob,
              risk_score |-> rule_risk_score,
              confidence_score |-> ml_confidence,
              is_fraud |-> IsFraud(final_fraud_prob),
              method |-> "ensemble"]

----------------------------------------------------------------------------
(* Risk metrics *)

_get_risk_level(risk_score) ==
    IF risk_score >= P(8) THEN "critical"
    ELSE IF risk_score >= P(6) THEN "high"
    ELSE IF risk_score >= P(4) THEN "medium"
    ELSE "low"

_get_recommended_action(risk_score) ==
    IF risk_score >= P(8) THEN "block"
    ELSE IF risk_score >= P(6) THEN "review"
    ELSE IF risk_score >= P(4) THEN "monitor"
    ELSE "approve"

\* min(1.0, x)
Min1(x) == IF x > Unit THEN Unit ELSE x

RiskFactors(t) ==
    (IF FloatOf(t.amount).value > 10000 THEN {"high_amount"} ELSE {})
    \cup (IF IsNone(t.latitude) THEN {"missing_location"} ELSE {})
    \cup (IF IsNone(t.ip_address) THEN {"missing_ip"} ELSE {})

_calculate_risk_metrics(prediction, t) ==
    IF IsRaise(FloatOf(t.amount))
    THEN [composite_risk_score |-> P(5),
          risk_factors |-> {"calculation_error"},
          risk_level |-> "medium",
          recommended_action |-> "review"]
    ELSE LET risk_factors == RiskFactors(t)
             base_risk == prediction.fraud_probability
             composite_risk == Min1((base_risk * (10 + Cardinality(risk_factors))) \div 10)
         IN  [composite_risk_score |-> composite_risk,
              risk_factors |-> risk_factors,
              risk_level |-> _get_risk_level(composite_risk),
              recommended_action |-> _get_recommended_action(composite_risk)]

----------------------------------------------------------------------------
(* Performance counter *)

\* latencies of a call, in 1/12 ms
PredictionTimes == {12, 24}

\* a running average that halves towards the new latency
_update_performance_metrics_Halving(count, avg, prediction_time) ==
    [prediction_count |-> count + 1,
     avg_prediction_time |-> IF count = 0 THEN prediction_time
                             ELSE (avg + prediction_time) \div 2]

_update_performance_metrics(count, avg, prediction_time) ==
    [prediction_count |-> count + 1,
     avg_prediction_time |-> (avg * ((count + 1) - 1) + prediction_time) \div (count + 1)]

----------------------------------------------------------------------------
(* TransactionPreprocessor (backend/models/preprocessor.py).  A frame is  *)
(* described by the set of values each categorical column holds; an        *)
(* inference frame has one row, so its columns are singletons.  A column   *)
(* that is not in the frame is NoColumn.                                   *)

\* an exception with the message that tells the two ValueErrors apart
RaiseMsg(type, message) == [exception |-> type, message |-> message]

\* the strings of the categorical columns, in the order np.unique sorts them
Words == <<"grocery", "travel", "unknown", "web">>

NaN == "NaN"

NoColumn == {}

numerical_features ==
    <<"amount", "amount_log", "hour", "day_of_week", "amount_mean", "amount_std",
      "amount_min", "amount_max", "merchant_frequency", "time_since_last">>

categorical_features == <<"merchant", "category", "location">>

binary_features ==
    <<"is_weekend", "is_night", "amount_rounded", "merchant_rare", "high_amount",
      "velocity_risk">>

\* f"{feat}_encoded"
Encoded(feat) ==
    CASE feat = "merchant" -> "merchant_encoded"
      [] feat = "category" -> "category_encoded"
      [] feat = "location" -> "location_encoded"

\* TransactionPreprocessor(): the object __init__ leaves
TransactionPreprocessor ==
    [scalers |-> <<>>, encoders |-> <<>>, feature_names |-> <<>>, is_fitted |-> FALSE]

NoFrame == [base |-> FALSE, merchant |-> NoColumn, category |-> NoColumn, location |-> NoColumn]

\* create_features: the columns of the frame it returns; it indexes
\* timestamp, amount, user_id (base), merchant and category, and a missing
\* one is a KeyError
create_features(frame) ==
    IF ~frame.base \/ frame.merchant = NoColumn \/ frame.category = NoColumn
    THEN Raise("KeyError")
    ELSE [columns |->
            {"timestamp", "amount", "user_id", "merchant", "category"}
            \cup (IF frame.location = NoColumn THEN {} ELSE {"location"})
            \cup {numerical_features[i] : i \in 1..Len(numerical_features)}
            \cup {binary_features[i] : i \in 1..Len(binary_features)}
            \cup {"amount_count", "merchant_nunique", "category_nunique"}]

\* .fillna('unknown').astype(str) of one value
FillNa(value) == IF value = NaN THEN "unknown" ELSE value

WordIndex(w) == CHOOSE i \in 1..Len(Words) : Words[i] = w

\* the value a column holds in the row of a one-row frame
RowValue(column) == CHOOSE v \in column : TRUE

\* LabelEncoder.fit: classes_ is the sorted set of the values
LabelEncoderFit(values) == {FillNa(v) : v \in values}

\* LabelEncoder.transform([val])[0]: the rank of val in classes_, ValueError
\* for a label that is not in classes_
LabelEncoderTransform(classes, val) ==
    IF val \in classes
    THEN [code |-> Cardinality({c \in classes : WordIndex(c) < WordIndex(val)})]
    ELSE RaiseMsg("ValueError", "y contains previously unseen labels")

\* the try/except around encoder.transform([val]) in transform
EncodeValue(classes, val) ==
    LET first == LabelEncoderTransform(classes, val)
    IN  IF IsRaise(first) THEN LabelEncoderTransform(classes, "unknown") ELSE first

\* the features of a list that are columns of the frame, in list order
RECURSIVE PresentFrom(_, _, _)
PresentFrom(i, features, columns) ==
    IF i > Len(features) THEN <<>>
    ELSE (IF features[i] \in columns THEN <<features[i]>> ELSE <<>>)
         \o PresentFrom(i + 1, features, columns)

\* fit: the fields of the fitted object, or the exception of create_features
fit(corpus) ==
    LET df_features == create_features(corpus)
        scaled == PresentFrom(1, numerical_features, df_features.columns)
        encoded == PresentFrom(1, categorical_features, df_features.columns)
    IN  IF IsRaise(df_features) THEN df_features
        ELSE [scalers |-> scaled,
              encoders |-> [i \in 1..Len(encoded) |->
                              [feature |-> encoded[i],
                               classes |-> LabelEncoderFit(corpus[encoded[i]])]],
              feature_names |->
                  numerical_features
                  \o [i \in 1..Len(categorical_features) |-> Encoded(categorical_features[i])]
                  \o binary_features,
              is_fitted |-> TRUE]

\* the loop over self.encoders of transform, from encoder i on: the encoded
\* columns appended so far, each with the code of the frame's row
RECURSIVE EncodeFrom(_, _, _, _, _)
EncodeFrom(i, encoders, frame, columns, encoded) ==
    IF i > Len(encoders) THEN [columns |-> encoded]
    ELSE IF encoders[i].feature \notin columns
         THEN EncodeFrom(i + 1, encoders, frame, columns, encoded)
    ELSE LET e == EncodeValue(encoders[i].classes, FillNa(RowValue(frame[encoders[i].feature])))
         IN  IF IsRaise(e) THEN e
             ELSE EncodeFrom(i + 1, encoders, frame, columns,
                             Append(encoded, [name |-> Encoded(encoders[i].feature),
                                              code |-> e.code]))

\* transform: the names of the columns of the array it returns, in order,
\* with the codes of the encoded ones, or its exception
transform(self, frame) ==
    LET df_features == create_features(frame)
        scaled == PresentFrom(1, self.scalers, df_features.columns)
        categorical == EncodeFrom(1, self.encoders, frame, df_features.columns, <<>>)
        binary == PresentFrom(1, binary_features, df_features.columns)
    IN  IF ~self.is_fitted
        THEN RaiseMsg("ValueError", "Preprocessor must be fitted before transforming")
        ELSE IF IsRaise(df_features) THEN df_features
        ELSE IF IsRaise(categorical) THEN categorical
        ELSE [kind |-> "array",
              columns |-> scaled
                          \o [i \in 1..Len(categorical.columns) |-> categorical.columns[i].name]
                          \o binary,
              encoded |-> categorical.columns]

----------------------------------------------------------------------------
(* The numerical side of the same transform.  A row is a record user_id,   *)
(* timestamp (minutes), amount, merchant; the frame is the sequence of its *)
(* rows.  Of the feature vector, the entries kept are those create_features*)
(* derives from more than the row's own fields: the per-user amount        *)
(* statistics, the merchant frequency, the time since the user's previous  *)
(* row and the two flags computed from them.  amount_std is left out (it   *)
(* is 0 for a user with one row and irrational otherwise).                 *)

\* amount_mean is kept as MeanUnit times the mean, exact for 1 to 3 rows
MeanUnit == 6

\* time_since_last of a row without predecessor: 24 hours, in minutes
DefaultSinceLast == 24 * 60

RareBelow == 5

\* the rows of the frame that belong to user
RowsOf(rows, user) == {j \in 1..Len(rows) : rows[j].user_id = user}

RECURSIVE SumAmounts(_, _)
SumAmounts(rows, J) ==
    IF J = {} THEN 0
    ELSE LET j == CHOOSE k \in J : TRUE IN rows[j].amount + SumAmounts(rows, J \ {j})

\* df.groupby('user_id').agg(...): the statistics of one user over the frame
user_stats(rows, user) ==
    LET J == RowsOf(rows, user)
    IN  [amount_mean |-> (MeanUnit * SumAmounts(rows, J)) \div Cardinality(J),
         amount_min |-> CHOOSE a \in {rows[j].amount : j \in J} :
                            \A j \in J : a <= rows[j].amount,
         amount_max |-> CHOOSE a \in {rows[j].amount : j \in J} :
                            \A j \in J : a >= rows[j].amount,
         amount_count |-> Cardinality(J)]

\* df['merchant'].map(df['merchant'].value_counts())
merchant_frequency(rows, i) ==
    Cardinality({j \in 1..Len(rows) : rows[j].merchant = rows[i].merchant})

\* row j comes before row i in df.sort_values(['user_id', 'timestamp'])
\* within the rows of one user
SortsBefore(rows, j, i) ==
    \/ rows[j].timestamp < rows[i].timestamp
    \/ rows[j].timestamp = rows[i].timestamp /\ j < i

\* groupby('user_id')['timestamp'].diff() in minutes, 24 hours for the
\* first row of a user
time_since_last(rows, i) ==
    LET earlier == {j \in RowsOf(rows, rows[i].user_id) : SortsBefore(rows, j, i)}
    IN  IF earlier = {} THEN DefaultSinceLast
        ELSE LET prev == CHOOSE j \in earlier :
                            \A k \in earlier : k = j \/ SortsBefore(rows, k, j)
             IN  rows[i].timestamp - rows[prev].timestamp

\* the columns create_features adds to row i of the frame
RowFeatures(rows, i) ==
    LET stats == user_stats(rows, rows[i].user_id)
    IN  [amount_mean |-> stats.amount_mean,
         amount_min |-> stats.amount_min,
         amount_max |-> stats.amount_max,
         merchant_frequency |-> merchant_frequency(rows, i),
         time_since_last |-> time_since_last(rows, i),
         merchant_rare |-> IF merchant_frequency(rows, i) < RareBelow THEN 1 ELSE 0,
         velocity_risk |-> IF time_since_last(rows, i) < 60 THEN 1 ELSE 0]

\* scaler.transform of one value by the RobustScaler fitted for feature:
\* (x - center_) / scale_ with the center_ and scale_ of the fitted state,
\* kept as the scaler applied and the value it is applied to
Scaled(feature, x) == [scaler |-> feature, x |-> x]

\* the entries of row i in the array transform returns: scaled where a
\* scaler was fitted, the flags as they are
RowVector(self, rows, i) ==
    LET f == RowFeatures(rows, i)
        fitted == {self.scalers[k] : k \in 1..Len(self.scalers)}
        Entry(feature, x) == IF feature \in fitted THEN {Scaled(feature, x)} ELSE {}
    IN  [numerical |-> Entry("amount_mean", f.amount_mean)
                       \cup Entry("amount_min", f.amount_min)
                       \cup Entry("amount_max", f.amount_max)
                       \cup Entry("merchant_frequency", f.merchant_frequency)
                       \cup Entry("time_since_last", f.time_since_last),
         merchant_rare |-> f.merchant_rare,
         velocity_risk |-> f.velocity_risk]

\* transform on the rows: for each row of the frame, by its index label,
\* its entries in the array; or the ValueError of an unfitted object
transform_rows(self, rows) ==
    IF ~self.is_fitted
    THEN RaiseMsg("ValueError", "Preprocessor must be fitted before transforming")
    ELSE [kind |-> "array", rows |-> [i \in 1..Len(rows) |-> RowVector(self, rows, i)]]

----------------------------------------------------------------------------
(* Model registry *)

\* self.models[name] = obj: a new key goes last, an existing key keeps its place
SetModel(reg, name, obj) ==
    IF \E i \in 1..Len(reg) : reg[i].name = name
    THEN [i \in 1..Len(reg) |-> IF reg[i].name = name THEN obj ELSE reg[i]]
    ELSE Append(reg, obj)

\* what one run of _load_models finds for a model file: no file, a file
\* joblib.load turns into a model, or a file whose load raises
FileStates == {"missing", "present", "raises"}

\* the except branch of _load_models: AutoencoderModel() and LSTMModel()
DefaultModels(reg) ==
    SetModel(SetModel(reg, "autoencoder", Model("autoencoder")), "lstm", Model("lstm"))

\* _load_models from the i-th file on; files[i] is the state of the i-th file
RECURSIVE LoadModelsFrom(_, _, _)
LoadModelsFrom(i, reg, files) ==
    IF i > Len(ModelNames) THEN reg
    ELSE IF files[i] = "missing" THEN LoadModelsFrom(i + 1, reg, files)
    ELSE IF files[i] = "raises" THEN DefaultModels(reg)
    ELSE LoadModelsFrom(i + 1, SetModel(reg, ModelNames[i], Model(ModelNames[i])), files)

_load_models(reg, files) == LoadModelsFrom(1, reg, files)

----------------------------------------------------------------------------
(* AutoencoderModel (backend/models/autoencoder.py): the model under the   *)
(* name 'autoencoder', which has predict and no predict_proba.  Its scaler *)
(* is a StandardScaler, described by the data it was last fitted on.       *)

\* the scaler of the object as the registry received it
AsLoaded == [fitted_on |-> "as loaded"]

\* preprocess_data: hasattr(self.scaler, 'fit_transform') holds for every
\* StandardScaler, so the scaler is fitted anew on the data it is given;
\* a row minus its own mean is a row of zeros
preprocess_data(self_scaler, data) ==
    [scaler |-> [fitted_on |-> data], data_scaled |-> "zeros"]

\* predict: the scaler the model is left with; preprocess_data runs before
\* anything in predict can fail
predict(self_scaler, X) == preprocess_data(self_scaler, X).scaler

\* a prediction task that has not returned, and one that has
NotFinished == [done |-> FALSE, raised |-> FALSE, v |-> 0]

Finished(out) == [done |-> TRUE, raised |-> out.raised, v |-> out.v]

\* gather returns at the first task that is done
GatherDone_FirstCompleted(fin) == fin = <<>> \/ \E i \in 1..Len(fin) : fin[i].done

\* asyncio.gather returns when every task is done
GatherDone(fin) == \A i \in 1..Len(fin) : fin[i].done

PhaseNames ==
    <<"Preprocessing", "ModelInference", "RuleEvaluation", "Combination", "RiskMetrics",
      "CounterUpdate">>

----------------------------------------------------------------------------
(* VelocityChecker (plugins/examples/velocity_checker.py)                  *)
(*                                                                         *)
(* A datetime is [tz, h]: tz tells an offset-aware datetime from a naive   *)
(* one, h is its instant in hours.  Python orders two datetimes only when  *)
(* both are aware or both are naive; otherwise "<" and ">" raise           *)
(* TypeError.  All timestamps of the model are whole hours, so two of them *)
(* are within a minute exactly when they are equal.                        *)

NumThreads == 2

\* detect calls a thread makes
MaxDetects == 2

max_transactions_per_hour == 10

max_transactions_per_minute == 3

velocity_threshold == 8400

HoursKept == 24

Users == {"u1", "u2"}

\* transaction.get('user_id'): None when the key is absent
UserIds == {"None"} \cup Users

DateTime(tz, h) == [tz |-> tz, h |-> h]

\* datetime.now(): naive local time
Now == DateTime("naive", 30)

\* transaction.get('timestamp'): nothing, a datetime, an ISO string (with a
\* trailing Z it parses to an aware datetime, without offset to a naive
\* one), or a string fromisoformat rejects
TimestampInputs ==
    {[k |-> "none", tz |-> "naive", h |-> 0],
     [k |-> "datetime", tz |-> "naive", h |-> 0],
     [k |-> "datetime", tz |-> "naive", h |-> 30],
     [k |-> "str", tz |-> "aware", h |-> 30],
     [k |-> "str", tz |-> "naive", h |-> 30],
     [k |-> "invalid", tz |-> "naive", h |-> 0]}

VelocityTransactions == {[user_id |-> u, timestamp |-> ts] : u \in UserIds, ts \in TimestampInputs}

\* "not user_id or not timestamp"
MissingField(transaction) == transaction.user_id = "None" \/ transaction.timestamp.k = "none"

\* the conversion of the timestamp: fromisoformat of a string, now() for a
\* string it rejects
ConvertTimestamp(ts) ==
    IF ts.k = "invalid" THEN Now ELSE DateTime(ts.tz, ts.h)

\* a > b - timedelta(minutes = back) on two datetimes that can be ordered
LaterThan(a, b, back) == a.h * 60 > b.h * 60 - back

\* the list comprehension that keeps the last 24 hours, from entry i on:
\* TypeError at the first entry that cannot be ordered with the cutoff
RECURSIVE KeepRecentFrom(_, _, _)
KeepRecentFrom(i, history, timestamp) ==
    IF i > Len(history) THEN [kept |-> <<>>]
    ELSE IF history[i].tz # timestamp.tz THEN Raise("TypeError")
    ELSE LET rest == KeepRecentFrom(i + 1, history, timestamp)
         IN  IF IsRaise(rest) THEN rest
             ELSE [kept |-> (IF LaterThan(history[i], timestamp, HoursKept * 60)
                             THEN <<history[i]>> ELSE <<>>) \o rest.kept]

\* sum(1 for t in recent_transactions if t > timestamp - back)
CountSince(recent_transactions, timestamp, back) ==
    Cardinality({i \in 1..Len(recent_transactions) :
                    LaterThan(recent_transactions[i], timestamp, back)})

\* the velocity check on the cleaned history: the dict detect returns, or None
VelocityCheck(recent_transactions, timestamp) ==
    LET transactions_last_hour == CountSince(recent_transactions, timestamp, 60)
        transactions_last_minute == CountSince(recent_transactions, timestamp, 1)
        hourly == (transactions_last_hour * Unit) \div max_transactions_per_hour
        minute == (transactions_last_minute * Unit) \div max_transactions_per_minute
        hourly_risk == IF hourly > Unit THEN Unit ELSE hourly
        minute_risk == IF minute > Unit THEN Unit ELSE minute
        max_risk == IF hourly_risk > minute_risk THEN hourly_risk ELSE minute_risk
    IN  IF max_risk > velocity_threshold
        THEN [rule_triggered |-> "velocity_check", score |-> max_risk]
        ELSE [rule_triggered |-> "None", score |-> 0]

\* a thread outside detect
NoDetect == [pc |-> "idle", user_id |-> "None", timestamp |-> Now, kept |-> <<>>,
             ret |-> "none", n |-> 0]

----------------------------------------------------------------------------
(* The engine *)

NoResult == [kind |-> "none"]

\* a call that has not begun; overlapped records that the call completed
\* while another was awaiting its predictions
NoCall == [pc |-> "idle", transaction_data |-> NoTransaction, tasks |-> <<>>,
           prediction_time |-> 0, overlapped |-> FALSE]

\* detect_fraud from the combination step on: the dict it returns, or the
\* exception its except clause re-raises.  transaction_id and timestamp are
\* copied through and left out; record_prediction_time only reports the
\* latency to the metrics module.
DetectFraudResult(t, ml_predictions, rule_predictions, prediction_time) ==
    LET final_prediction == _ensemble_predictions(ml_predictions, rule_predictions)
        risk_metrics == _calculate_risk_metrics(final_prediction, t)
    IN  IF IsRaise(ml_predictions) THEN [kind |-> "raised", exception |-> ml_predictions.exception]
        ELSE IF IsRaise(rule_predictions) THEN [kind |-> "raised", exception |-> rule_predictions.exception]
        ELSE IF IsRaise(final_prediction) THEN [kind |-> "raised", exception |-> final_prediction.exception]
        ELSE IF IsRaise(risk_metrics) THEN [kind |-> "raised", exception |-> risk_metrics.exception]
        ELSE [kind |-> "verdict",
              fraud_probability |-> final_prediction.fraud_probability,
              risk_score |-> final_prediction.risk_score,
              confidence_score |-> final_prediction.confidence_score,
              is_fraud |-> final_prediction.is_fraud,
              detection_method |-> final_prediction.method,
              ml_predictions |-> ml_predictions,
              rule_predictions |-> rule_predictions,
              risk_metrics |-> risk_metrics,
              prediction_time_ms |-> prediction_time]

Init ==
    /\ \E files \in [1..Len(ModelNames) -> FileStates] : models = _load_models(<<>>, files)
    /\ preprocessor \in BOOLEAN
    /\ prediction_count = 0
    /\ avg_prediction_time = 0
    /\ pc = "idle"
    /\ transaction_data = NoTransaction
    /\ processed_data = "none"
    /\ tasks = <<>>
    /\ result = NoResult
    /\ tp = TransactionPreprocessor
    /\ df = NoFrame
    /\ transformed = NoResult
    /\ calls = [c \in 1..NumCalls |-> NoCall]
    /\ scaler = AsLoaded
    /\ finished = <<>>
    /\ phases = <<>>
    /\ batch = <<>>
    /\ vectors = NoResult
    /\ transaction_history = [u \in Users |-> <<>>]
    /\ lock = 0
    /\ threads = [th \in 1..NumThreads |-> NoDetect]

\* detect_fraud up to the await of gather: preprocessing and task creation
DetectFraudBegin(t) ==
    /\ pc = "idle"
    /\ prediction_count < MaxCalls
    /\ transaction_data' = t
    /\ LET processed == _preprocess_transaction(preprocessor, t)
       IN  IF IsRaise(processed)
           THEN /\ result' = [kind |-> "raised", exception |-> processed.exception]
                /\ pc' = "done"
                /\ UNCHANGED <<processed_data, tasks>>
           ELSE /\ processed_data' = processed.features
                /\ tasks' = models
                /\ pc' = "gather"
                /\ UNCHANGED result
    /\ UNCHANGED <<models, preprocessor, prediction_count, avg_prediction_time>>
    /\ UNCHANGED <<prepVars, calls, otherVars>>

\* detect_fraud from the return of gather to its return
DetectFraudComplete(outs, prediction_time) ==
    /\ pc = "gather"
    /\ \A i \in 1..Len(tasks) : outs[i] \in ModelOutputs(tasks[i].kind)
    /\ LET ml_predictions == _run_ml_models(tasks, outs, models)
           rule_predictions == _run_rules(transaction_data)
           res == DetectFraudResult(transaction_data, ml_predictions, rule_predictions, prediction_time)
           perf == _update_performance_metrics(prediction_count, avg_prediction_time, prediction_time)
       IN  /\ result' = res
           /\ IF res.kind = "verdict"
              THEN /\ prediction_count' = perf.prediction_count
                   /\ avg_prediction_time' = perf.avg_prediction_time
              ELSE UNCHANGED <<prediction_count, avg_prediction_time>>
    /\ pc' = "done"
    /\ UNCHANGED <<models, preprocessor, transaction_data, processed_data, tasks>>
    /\ UNCHANGED <<prepVars, calls, otherVars>>

\* the caller has taken the result; the call's data is discarded
Release ==
    /\ pc = "done"
    /\ pc' = "idle"
    /\ transaction_data' = NoTransaction
    /\ processed_data' = "none"
    /\ tasks' = <<>>
    /\ result' = NoResult
    /\ UNCHANGED <<models, preprocessor, prediction_count, avg_prediction_time>>
    /\ UNCHANGED <<prepVars, calls, otherVars>>

\* reload_models, between calls or while a call awaits its predictions;
\* gather() of no task is done at once, and awaiting it does not suspend
ReloadModels(files) ==
    /\ pc = "idle" \/ (pc = "gather" /\ Len(tasks) > 0)
    /\ models' = _load_models(models, files)
    /\ UNCHANGED <<preprocessor, prediction_count, avg_prediction_time, pc,
                   transaction_data, processed_data, tasks, result>>
    /\ UNCHANGED <<prepVars, calls, otherVars>>

Next ==
    \/ \E t \in Transactions : DetectFraudBegin(t)
    \/ \E outs \in [1..Len(tasks) -> ProbaOutputs \cup RegressOutputs], pt \in PredictionTimes :
          DetectFraudComplete(outs, pt)
    \/ Release
    \/ \E files \in [1..Len(ModelNames) -> FileStates] : ReloadModels(files)

Spec == Init /\ [][Next]_vars

----------------------------------------------------------------------------
(* The rule battery on its own: _run_rules applied to transactions that    *)
(* cover the tier boundaries of the amount rule and the coordinate ranges  *)
(* of the location rule.                                                   *)

RuleAmounts ==
    {Null, Num(1), Num(4999), Num(5000), Num(5001), Num(9999), Num(10000),
     Num(10001), Num(15000)}

RuleLatitudes == {Absent, Null, Num(0 - 91), Num(0 - 90), Num(45), Num(90), Num(91)}

RuleLongitudes == {Absent, Null, Num(0 - 181), Num(0 - 180), Num(100), Num(180), Num(181)}

RuleTransactions ==
    {[amount |-> a, latitude |-> lat, longitude |-> lon, ip_address |-> Absent,
      timestamp |-> [k |-> "ok", v |-> 12],
      merchant_category |-> [k |-> "str", v |-> "retail"]] :
        a \in RuleAmounts, lat \in RuleLatitudes, lon \in RuleLongitudes}

\* rule_predictions = await self._run_rules(transaction_data)
RunRules(t) ==
    /\ pc = "idle"
    /\ transaction_data' = t
    /\ result' = [kind |-> "rules", rule_predictions |-> _run_rules(t)]
    /\ pc' = "done"
    /\ UNCHANGED <<models, preprocessor, prediction_count, avg_prediction_time,
                   processed_data, tasks>>
    /\ UNCHANGED <<prepVars, calls, otherVars>>

NextRules ==
    \/ \E t \in RuleTransactions : RunRules(t)
    \/ Release

SpecRules == Init /\ [][NextRules]_vars

----------------------------------------------------------------------------
(* The preprocessor on its own: fit on a training frame, then transform    *)
(* one-row frames.                                                         *)

\* the value sets a categorical column of a training frame can hold
CorpusValues == {{"grocery"}, {"grocery", "travel"}, {"grocery", NaN}, {"unknown", "travel"}}

Corpora ==
    {[base |-> b, merchant |-> m, category |-> c, location |-> l] :
        b \in BOOLEAN, m \in CorpusValues, c \in {{"grocery"}, {"grocery", NaN}},
        l \in {NoColumn} \cup CorpusValues}

Frames ==
    {[base |-> b, merchant |-> m, category |-> c, location |-> l] :
        b \in BOOLEAN, m \in {{"grocery"}, {"web"}, {NaN}}, c \in {{"grocery"}, {"web"}},
        l \in {NoColumn, {"grocery"}, {"web"}, {NaN}}}

\* preprocessor.fit(corpus) on a fresh object
Fit(corpus) ==
    /\ ~tp.is_fitted
    /\ LET r == fit(corpus) IN tp' = IF IsRaise(r) THEN tp ELSE r
    /\ UNCHANGED <<df, transformed, calls>>
    /\ UNCHANGED <<engineVars, otherVars>>

\* preprocessor.transform(frame)
Transform(frame) ==
    /\ df' = frame
    /\ LET r == transform(tp, frame)
       IN  transformed' = IF IsRaise(r) THEN [kind |-> "raised", exception |-> r.exception,
                                               message |-> r.message]
                          ELSE r
    /\ UNCHANGED <<tp, calls>>
    /\ UNCHANGED <<engineVars, otherVars>>

NextPrep ==
    \/ \E corpus \in Corpora : Fit(corpus)
    \/ \E frame \in Frames : Transform(frame)

\* the engine takes no step here: it is the one built without any file
InitPrep == Init /\ models = <<>> /\ preprocessor = FALSE

SpecPrep == InitPrep /\ [][NextPrep]_vars

----------------------------------------------------------------------------
(* Concurrent calls.  The calls run as coroutines of one event loop: a     *)
(* call runs without interruption up to the await of gather and from the   *)
(* return of gather to its end, so calls interleave only at that await.    *)

\* a transaction every preprocessing accepts, and one whose latitude is None
PerfTransactions ==
    {[amount |-> Num(50), latitude |-> lat, longitude |-> Num(100), ip_address |-> Absent,
      timestamp |-> [k |-> "ok", v |-> 12],
      merchant_category |-> [k |-> "str", v |-> "retail"]] : lat \in {Num(45), Null}}

\* detect_fraud of call c up to the await of gather
CallBegin(c, t) ==
    /\ calls[c].pc = "idle"
    /\ LET processed == _preprocess_transaction(preprocessor, t)
       IN  calls' = [calls EXCEPT ![c] =
                        IF IsRaise(processed)
                        THEN [@ EXCEPT !.pc = "raised", !.transaction_data = t]
                        ELSE [@ EXCEPT !.pc = "gather", !.transaction_data = t,
                                       !.tasks = models]]
    /\ UNCHANGED engineVars
    /\ UNCHANGED <<prepVars, otherVars>>

\* detect_fraud of call c from the return of gather to its return
CallComplete(c, outs, prediction_time) ==
    /\ calls[c].pc = "gather"
    /\ \A i \in 1..Len(calls[c].tasks) : outs[i] \in ModelOutputs(calls[c].tasks[i].kind)
    /\ LET t == calls[c].transaction_data
           ml_predictions == _run_ml_models(calls[c].tasks, outs, models)
           rule_predictions == _run_rules(t)
           res == DetectFraudResult(t, ml_predictions, rule_predictions, prediction_time)
           perf == _update_performance_metrics(prediction_count, avg_prediction_time, prediction_time)
       IN  IF res.kind = "verdict"
           THEN /\ prediction_count' = perf.prediction_count
                /\ avg_prediction_time' = perf.avg_prediction_time
                /\ calls' = [calls EXCEPT ![c] =
                                [@ EXCEPT !.pc = "done", !.prediction_time = prediction_time,
                                          !.overlapped = \E d \in DOMAIN calls :
                                                             d # c /\ calls[d].pc = "gather"]]
           ELSE /\ calls' = [calls EXCEPT ![c] = [@ EXCEPT !.pc = "raised"]]
                /\ UNCHANGED <<prediction_count, avg_prediction_time>>
    /\ UNCHANGED <<models, preprocessor, pc, transaction_data, processed_data, tasks, result>>
    /\ UNCHANGED <<prepVars, otherVars>>

NextPerf ==
    \/ \E c \in 1..NumCalls, t \in PerfTransactions : CallBegin(c, t)
    \/ \E c \in 1..NumCalls, pt \in PredictionTimes :
          \E outs \in [1..Len(calls[c].tasks) -> ProbaOutputs \cup RegressOutputs] :
              CallComplete(c, outs, pt)

\* engines with at most one model
InitPerf == Init /\ Len(models) <= 1

SpecPerf == InitPerf /\ [][NextPerf]_vars

----------------------------------------------------------------------------
(* A model whose inference does not return.  _predict_with_model awaits    *)
(* run_in_executor(self.executor, model.predict, data), _run_ml_models     *)
(* awaits gather over the tasks; neither is given a timeout, so the call   *)
(* resumes only when every task has finished.                              *)

LiveTransactions ==
    {[amount |-> Num(50), latitude |-> Num(45), longitude |-> Num(100), ip_address |-> ip,
      timestamp |-> [k |-> "ok", v |-> 12],
      merchant_category |-> [k |-> "str", v |-> "retail"]] : ip \in IpValues}

\* predict of one of the dispatched models never returns: its task never
\* finishes and gather never returns
InferenceHangs ==
    /\ pc = "gather"
    /\ Len(tasks) > 0
    /\ pc' = "blocked"
    /\ UNCHANGED <<models, preprocessor, prediction_count, avg_prediction_time,
                   transaction_data, processed_data, tasks, result>>
    /\ UNCHANGED <<prepVars, calls, otherVars>>

\* the call resumes once gather has returned
Resume ==
    \E outs \in [1..Len(tasks) -> ProbaOutputs \cup RegressOutputs], pt \in PredictionTimes :
        DetectFraudComplete(outs, pt)

NextLive ==
    \/ \E t \in LiveTransactions : DetectFraudBegin(t)
    \/ Resume
    \/ InferenceHangs
    \/ Release

\* the event loop resumes a call whose tasks have all finished, and the
\* caller takes a result that is ready
SpecLive == InitPerf /\ [][NextLive]_vars /\ WF_vars(Resume) /\ WF_vars(Release)

----------------------------------------------------------------------------
(* One detect_fraud call phase by phase: every statement of its try block  *)
(* is a step, and between the creation of the prediction tasks and the     *)
(* return of gather each task is run by the executor, in any order.        *)

PhaseTransactions ==
    {[amount |-> a, latitude |-> Num(45), longitude |-> Num(100), ip_address |-> Absent,
      timestamp |-> ts, merchant_category |-> [k |-> "str", v |-> "retail"]] :
        a \in {Num(50), Num(15000)}, ts \in {[k |-> "ok", v |-> 12], [k |-> "bad", v |-> 0]}}

\* what gather returned, task by task
GatherOuts == [i \in 1..Len(finished) |-> [raised |-> finished[i].raised, v |-> finished[i].v]]

\* a statement of the try block is over: the next one, or the except clause
Advance(phase, outcome, next) ==
    /\ phases' = Append(phases, phase)
    /\ IF IsRaise(outcome)
       THEN /\ pc' = "done"
            /\ result' = [kind |-> "raised", exception |-> outcome.exception]
       ELSE /\ pc' = next
            /\ UNCHANGED result

\* processed_data = self._preprocess_transaction(transaction_data)
PhasePreprocess(t) ==
    /\ pc = "idle"
    /\ prediction_count < MaxCalls
    /\ transaction_data' = t
    /\ LET processed == _preprocess_transaction(preprocessor, t)
       IN  /\ processed_data' = IF IsRaise(processed) THEN processed_data
                                ELSE processed.features
           /\ phases' = <<"Preprocessing">>
           /\ IF IsRaise(processed)
              THEN /\ pc' = "done"
                   /\ result' = [kind |-> "raised", exception |-> processed.exception]
              ELSE /\ pc' = "dispatch"
                   /\ UNCHANGED result
    /\ finished' = <<>>
    /\ UNCHANGED <<models, preprocessor, prediction_count, avg_prediction_time, tasks, scaler>>
    /\ UNCHANGED <<prepVars, calls, aggVars, velVars>>

\* _run_ml_models up to the await: a task per entry of self.models
PhaseDispatch ==
    /\ pc = "dispatch"
    /\ tasks' = models
    /\ finished' = [i \in 1..Len(models) |-> NotFinished]
    /\ phases' = Append(phases, "ModelInference")
    /\ pc' = "gather"
    /\ UNCHANGED <<models, preprocessor, prediction_count, avg_prediction_time,
                   transaction_data, processed_data, result, scaler>>
    /\ UNCHANGED <<prepVars, calls, aggVars, velVars>>

\* the executor runs model.predict_proba / model.predict of task i
TaskRuns(i, out) ==
    /\ pc = "gather"
    /\ i \in 1..Len(tasks)
    /\ ~finished[i].done
    /\ out \in ModelOutputs(tasks[i].kind)
    /\ finished' = [finished EXCEPT ![i] = Finished(out)]
    /\ scaler' = IF tasks[i].name = "autoencoder" THEN predict(scaler, processed_data)
                 ELSE scaler
    /\ UNCHANGED <<models, preprocessor, prediction_count, avg_prediction_time, pc,
                   transaction_data, processed_data, tasks, result, phases>>
    /\ UNCHANGED <<prepVars, calls, aggVars, velVars>>

\* gather returns and the fan-in loop runs; then rule_predictions = await
\* self._run_rules(transaction_data)
PhaseRules ==
    /\ pc = "gather"
    /\ GatherDone(finished)
    /\ Advance("RuleEvaluation", _run_rules(transaction_data), "combine")
    /\ UNCHANGED <<models, preprocessor, prediction_count, avg_prediction_time,
                   transaction_data, processed_data, tasks, scaler, finished>>
    /\ UNCHANGED <<prepVars, calls, aggVars, velVars>>

\* final_prediction = self._ensemble_predictions(ml_predictions, rule_predictions)
PhaseCombine ==
    /\ pc = "combine"
    /\ Advance("Combination",
               _ensemble_predictions(_run_ml_models(tasks, GatherOuts, models),
                                     _run_rules(transaction_data)),
               "risk")
    /\ UNCHANGED <<models, preprocessor, prediction_count, avg_prediction_time,
                   transaction_data, processed_data, tasks, scaler, finished>>
    /\ UNCHANGED <<prepVars, calls, aggVars, velVars>>

\* risk_metrics = self._calculate_risk_metrics(final_prediction, transaction_data)
PhaseRisk ==
    /\ pc = "risk"
    /\ Advance("RiskMetrics",
               _calculate_risk_metrics(
                   _ensemble_predictions(_run_ml_models(tasks, GatherOuts, models),
                                         _run_rules(transaction_data)),
                   transaction_data),
               "counter")
    /\ UNCHANGED <<models, preprocessor, prediction_count, avg_prediction_time,
                   transaction_data, processed_data, tasks, scaler, finished>>
    /\ UNCHANGED <<prepVars, calls, aggVars, velVars>>

\* the latency is taken, self._update_performance_metrics runs and the
\* result is returned
PhaseCounter(prediction_time) ==
    /\ pc = "counter"
    /\ LET perf == _update_performance_metrics(prediction_count, avg_prediction_time,
                                               prediction_time)
       IN  /\ prediction_count' = perf.prediction_count
           /\ avg_prediction_time' = perf.avg_prediction_time
    /\ result' = DetectFraudResult(transaction_data,
                                   _run_ml_models(tasks, GatherOuts, models),
                                   _run_rules(transaction_data), prediction_time)
    /\ phases' = Append(phases, "CounterUpdate")
    /\ pc' = "done"
    /\ UNCHANGED <<models, preprocessor, transaction_data, processed_data, tasks, scaler,
                   finished>>
    /\ UNCHANGED <<prepVars, calls, aggVars, velVars>>

NextPhase ==
    \/ \E t \in PhaseTransactions : PhasePreprocess(t)
    \/ PhaseDispatch
    \/ \E i \in 1..Len(ModelNames), out \in ProbaOutputs \cup RegressOutputs : TaskRuns(i, out)
    \/ PhaseRules
    \/ PhaseCombine
    \/ PhaseRisk
    \/ \E pt \in PredictionTimes : PhaseCounter(pt)
    \/ Release

SpecPhase == Init /\ [][NextPhase]_vars

----------------------------------------------------------------------------
(* The preprocessor given frames of one or more rows.                      *)

MaxRows == 2

\* what is bought where
Purchases == {[amount |-> 10, merchant |-> "grocery"], [amount |-> 50, merchant |-> "web"]}

RowValues ==
    {[user_id |-> u, timestamp |-> ts, amount |-> b.amount, merchant |-> b.merchant] :
        u \in {"u1", "u2"}, ts \in {0, 30}, b \in Purchases}

RowFrames == UNION {[1..n -> RowValues] : n \in 1..MaxRows}

\* preprocessor.transform(frame), the numerical columns
TransformRows(rows) ==
    /\ batch' = rows
    /\ LET r == transform_rows(tp, rows)
       IN  vectors' = IF IsRaise(r) THEN [kind |-> "raised", exception |-> r.exception,
                                           message |-> r.message]
                      ELSE r
    /\ UNCHANGED <<engineVars, prepVars, calls, phaseVars, velVars>>

NextAgg ==
    \/ \E corpus \in Corpora : Fit(corpus)
    \/ \E rows \in RowFrames : TransformRows(rows)

SpecAgg == InitPrep /\ [][NextAgg]_vars

----------------------------------------------------------------------------
(* VelocityChecker.detect called from NumThreads threads.  The block under *)
(* "with self.lock" is taken statement by statement: the comprehension is  *)
(* evaluated, its list is assigned, the timestamp is appended, the counts  *)
(* are taken and the block is left.                                        *)

nonVelVars == <<engineVars, prepVars, calls, phaseVars, aggVars>>

\* detect up to "with self.lock": the early return, the conversion
DetectCall(th, transaction) ==
    /\ threads[th].pc = "idle"
    /\ threads[th].n < MaxDetects
    /\ threads' = [threads EXCEPT ![th] =
                      IF MissingField(transaction)
                      THEN [pc |-> "returned", user_id |-> transaction.user_id,
                            timestamp |-> Now, kept |-> <<>>, ret |-> "None",
                            n |-> threads[th].n + 1]
                      ELSE [pc |-> "acquire", user_id |-> transaction.user_id,
                            timestamp |-> ConvertTimestamp(transaction.timestamp),
                            kept |-> <<>>, ret |-> "none", n |-> threads[th].n + 1]]
    /\ UNCHANGED <<transaction_history, lock>>
    /\ UNCHANGED nonVelVars

\* "with self.lock": entered when no thread holds the lock
AcquireLock(th) ==
    /\ threads[th].pc = "acquire"
    /\ lock = 0
    /\ lock' = th
    /\ threads' = [threads EXCEPT ![th].pc = "clean"]
    /\ UNCHANGED transaction_history
    /\ UNCHANGED nonVelVars

\* the comprehension over self.transaction_history[user_id]; its TypeError
\* leaves the with block, which releases the lock, and leaves detect
CleanRead(th) ==
    /\ threads[th].pc = "clean"
    /\ LET r == KeepRecentFrom(1, transaction_history[threads[th].user_id], threads[th].timestamp)
       IN  IF IsRaise(r)
           THEN /\ threads' = [threads EXCEPT ![th].pc = "raised", ![th].ret = r.exception]
                /\ lock' = 0
           ELSE /\ threads' = [threads EXCEPT ![th].pc = "assign", ![th].kept = r.kept]
                /\ UNCHANGED lock
    /\ UNCHANGED transaction_history
    /\ UNCHANGED nonVelVars

\* self.transaction_history[user_id] = [...]
CleanWrite(th) ==
    /\ threads[th].pc = "assign"
    /\ transaction_history' = [transaction_history EXCEPT ![threads[th].user_id] = threads[th].kept]
    /\ threads' = [threads EXCEPT ![th].pc = "append"]
    /\ UNCHANGED lock
    /\ UNCHANGED nonVelVars

\* self.transaction_history[user_id].append(timestamp)
AppendTimestamp(th) ==
    /\ threads[th].pc = "append"
    /\ transaction_history' = [transaction_history EXCEPT ![threads[th].user_id] =
                                  Append(@, threads[th].timestamp)]
    /\ threads' = [threads EXCEPT ![th].pc = "check"]
    /\ UNCHANGED lock
    /\ UNCHANGED nonVelVars

\* the velocity check and the return, which leaves the with block
CheckVelocity(th) ==
    /\ threads[th].pc = "check"
    /\ threads' = [threads EXCEPT
                      ![th].pc = "returned",
                      ![th].ret = VelocityCheck(transaction_history[threads[th].user_id],
                                                threads[th].timestamp).rule_triggered]
    /\ lock' = 0
    /\ UNCHANGED transaction_history
    /\ UNCHANGED nonVelVars

\* the caller has taken what detect returned or raised
DetectOver(th) ==
    /\ threads[th].pc \in {"returned", "raised"}
    /\ threads' = [threads EXCEPT ![th].pc = "idle"]
    /\ UNCHANGED <<transaction_history, lock>>
    /\ UNCHANGED nonVelVars

NextVel ==
    \/ \E th \in 1..NumThreads, transaction \in VelocityTransactions : DetectCall(th, transaction)
    \/ \E th \in 1..NumThreads : AcquireLock(th)
    \/ \E th \in 1..NumThreads : CleanRead(th)
    \/ \E th \in 1..NumThreads : CleanWrite(th)
    \/ \E th \in 1..NumThreads : AppendTimestamp(th)
    \/ \E th \in 1..NumThreads : CheckVelocity(th)
    \/ \E th \in 1..NumThreads : DetectOver(th)

SpecVel == InitPrep /\ [][NextVel]_vars

----------------------------------------------------------------------------
(* Properties *)

IsVerdict == pc = "done" /\ result.kind = "verdict"

VerdictKeys ==
    {"fraud_probability", "risk_score", "confidence_score", "is_fraud",
     "detection_method", "ml_predictions", "rule_predictions", "risk_metrics",
     "prediction_time_ms"}

RiskMetricsKeys ==
    {"composite_risk_score", "risk_factors", "risk_level", "recommended_action"}

\* the models whose entry is a prediction
SucceededModels(ml) == {m \in DOMAIN ml : "fraud_probability" \in DOMAIN ml[m]}

\* the models and rules whose entry is an error marker
ErroredEntries(d) == {m \in DOMAIN d : DOMAIN d[m] = {"error"}}

\* the rules whose entry says triggered = True
TriggeredRules(rp) == {r \in DOMAIN rp : "triggered" \in DOMAIN rp[r] /\ rp[r].triggered}

InUnitRange(x) == 0 <= x /\ x <= Unit

\* C1: a detect_fraud call ends either with a complete verdict or with the
\* exception of preprocessing a malformed transaction; once preprocessing has
\* produced a feature vector the caller gets a verdict, whatever the models
\* and the rules did.
C1_FailuresContained ==
    pc = "done" =>
        /\ result.kind \in {"verdict", "raised"}
        /\ processed_data # "none" => result.kind = "verdict"
        /\ result.kind = "raised" =>
              /\ processed_data = "none"
              /\ result.exception \in {"TypeError", "ValueError"}
              /\ IsRaise(_basic_preprocessing(transaction_data))
        /\ result.kind = "verdict" =>
              /\ VerdictKeys \subseteq DOMAIN result
              /\ RiskMetricsKeys \subseteq DOMAIN result.risk_metrics

C1_Witness ==
    /\ IsVerdict
    /\ ErroredEntries(result.ml_predictions) # {}
    /\ ErroredEntries(result.rule_predictions) # {}
    /\ "error" \in DOMAIN result.ml_predictions

\* C2: for a transaction with amount > 0 every score of the verdict is in [0,1].
C2_ScoresInUnitRange ==
    (IsVerdict /\ transaction_data.amount.k = "num" /\ transaction_data.amount.v > 0) =>
        /\ InUnitRange(result.fraud_probability)
        /\ InUnitRange(result.risk_score)
        /\ InUnitRange(result.confidence_score)
        /\ InUnitRange(result.risk_metrics.composite_risk_score)

\* C3: on the normal combination path fraud_probability is
\* 0.7 x (mean of the succeeded models' probabilities, 0.5 when none)
\* + 0.3 x (mean of the triggered rules' scores, 0.1 when none).
C3_WeightedSum ==
    (IsVerdict /\ result.detection_method = "ensemble") =>
        LET S == SucceededModels(result.ml_predictions)
            T == TriggeredRules(result.rule_predictions)
            nS == IF S = {} THEN 1 ELSE Cardinality(S)
            nT == IF T = {} THEN 1 ELSE Cardinality(T)
            sS == IF S = {} THEN Unit \div 2
                  ELSE SumOver(S, [m \in S |-> result.ml_predictions[m].fraud_probability])
            sT == IF T = {} THEN Unit \div 10
                  ELSE SumOver(T, [r \in T |-> result.rule_predictions[r].risk_score])
        IN  10 * nS * nT * result.fraud_probability = 7 * sS * nT + 3 * sT * nS

C3_Witness ==
    /\ IsVerdict
    /\ result.detection_method = "ensemble"
    /\ Cardinality(SucceededModels(result.ml_predictions)) >= 2
    /\ Cardinality(TriggeredRules(result.rule_predictions)) >= 2

\* C4: the ML aggregate, the part of fraud_probability that is not the rule
\* aggregate, is the mean over the models that are not marked error, and 0.5
\* when there is none: then fraud_probability = 0.3 x rule aggregate + 0.35.
C4_MLAggregate ==
    (IsVerdict /\ result.detection_method = "ensemble") =>
        LET ml == result.ml_predictions
            S == DOMAIN ml \ ErroredEntries(ml)
            mlPart == 10 * result.fraud_probability - 3 * result.risk_score
        IN  IF S = {}
            THEN 20 * result.fraud_probability = 6 * result.risk_score + 7 * Unit
            ELSE Cardinality(S) * mlPart = 7 * SumOver(S, [m \in S |-> ml[m].fraud_probability])

C4_Witness ==
    /\ IsVerdict
    /\ result.detection_method = "ensemble"
    /\ ErroredEntries(result.ml_predictions) # {}
    /\ SucceededModels(result.ml_predictions) # {}

\* C5: the rule aggregate (the verdict's risk_score) is the mean of risk_score
\* over the rules that returned triggered = True, and 0.1 when none did.
C5_RuleAggregate ==
    (IsVerdict /\ result.detection_method = "ensemble") =>
        LET rp == result.rule_predictions
            T == TriggeredRules(rp)
        IN  IF T = {}
            THEN 10 * result.risk_score = Unit
            ELSE Cardinality(T) * result.risk_score = SumOver(T, [r \in T |-> rp[r].risk_score])

C5_Witness ==
    /\ IsVerdict
    /\ result.detection_method = "ensemble"
    /\ Cardinality(TriggeredRules(result.rule_predictions)) >= 2
    /\ ErroredEntries(result.rule_predictions) # {}
    /\ \E r \in DOMAIN result.rule_predictions :
          /\ "triggered" \in DOMAIN result.rule_predictions[r]
          /\ ~result.rule_predictions[r].triggered

\* C6: is_fraud is true exactly when fraud_probability is strictly above the
\* threshold 0.7.
C6_StrictThreshold ==
    IsVerdict =>
        /\ 10 * FRAUD_THRESHOLD = 7 * Unit
        /\ result.is_fraud <=> (10 * result.fraud_probability > 7 * Unit)

C6_Witness ==
    /\ IsVerdict
    /\ result.detection_method = "ensemble"
    /\ 10 * result.fraud_probability = 7 * Unit
    /\ ~result.is_fraud

\* C7: when the fan-in has left a predictions map the combiner cannot read
\* (the registry grew while the call awaited its predictions), the call still
\* returns a verdict, and a fallback verdict is exactly
\* (0.5, 0.5, 0.5, not fraud).
C7_Fallback ==
    /\ (pc = "done" /\ processed_data # "none" /\ Len(models) > Len(tasks)) =>
          /\ result.kind = "verdict"
          /\ result.detection_method = "fallback"
    /\ (IsVerdict /\ result.detection_method = "fallback") =>
          /\ 2 * result.fraud_probability = Unit
          /\ 2 * result.risk_score = Unit
          /\ 2 * result.confidence_score = Unit
          /\ result.is_fraud = FALSE

C7_Witness ==
    /\ IsVerdict
    /\ result.detection_method = "fallback"
    /\ "error" \in DOMAIN result.ml_predictions
    /\ SucceededModels(result.ml_predictions) # {}

\* C8: the rule-result map has one entry per rule of the battery; the entry
\* of a rule that raised is an error marker and the entry of every other
\* rule, also of those after it, is the rule's own result.
C8_RuleIsolation ==
    IsVerdict =>
        LET rp == result.rule_predictions
        IN  /\ DOMAIN rp = {rules[i] : i \in 1..Len(rules)}
            /\ Len(rules) = 5
            /\ \A r \in DOMAIN rp :
                  IF IsRaise(CallRule(r, transaction_data))
                  THEN DOMAIN rp[r] = {"error"}
                  ELSE rp[r] = CallRule(r, transaction_data)

C8_Witness ==
    /\ IsVerdict
    /\ "_location_rule" \in ErroredEntries(result.rule_predictions)
    /\ "_time_pattern_rule" \in TriggeredRules(result.rule_predictions)
    /\ "_merchant_risk_rule" \in TriggeredRules(result.rule_predictions)

C10_CompositeRisk ==
    IsVerdict =>
        LET t == transaction_data
            factors ==
                (IF t.amount.k = "num" /\ t.amount.v > 10000 THEN {"high_amount"} ELSE {})
                \cup (IF t.latitude.k \in {"absent", "null"} THEN {"missing_location"} ELSE {})
                \cup (IF t.ip_address.k \in {"absent", "null"} THEN {"missing_ip"} ELSE {})
            x == result.fraud_probability * (10 + Cardinality(factors))
            clamped == IF x < 0 THEN 0 ELSE IF x > 10 * Unit THEN 10 * Unit ELSE x
        IN  /\ result.risk_metrics.risk_factors = factors
            /\ 10 * result.risk_metrics.composite_risk_score = clamped

\* C11: a call during whose await reload_models ran works on one model
\* set: the registry its fan-in reads is the registry its tasks were created
\* from.  (Model objects are told apart by name; the fan-in reads only the
\* names.)
C11_SingleModelSet ==
    (pc = "done" /\ processed_data # "none") => models = tasks

\* the calls that returned a verdict
CompletedCalls == {c \in DOMAIN calls : calls[c].pc = "done"}

\* C12: whatever the interleaving of the calls, prediction_count is the
\* number of calls that completed and avg_prediction_time is the arithmetic
\* mean of their latencies.
C12_NoLostUpdate ==
    /\ prediction_count = Cardinality(CompletedCalls)
    /\ avg_prediction_time * Cardinality(CompletedCalls)
          = SumOver(CompletedCalls, [c \in CompletedCalls |-> calls[c].prediction_time])

C12_Witness ==
    /\ Cardinality(CompletedCalls) = 3
    /\ Cardinality({c \in CompletedCalls : calls[c].overlapped}) >= 2
    /\ \E c, d \in CompletedCalls : calls[c].prediction_time # calls[d].prediction_time
    /\ prediction_count = 3

\* C13: a call one of whose models never returns from inference still
\* completes.
C13_CallCompletes == (pc = "blocked") ~> (pc = "done")

\* the optional fields of a transaction are each absent, None, or a value of
\* the declared type
OptionalFieldsWellTyped(t) ==
    /\ t.latitude.k \in {"absent", "null", "num"}
    /\ t.longitude.k \in {"absent", "null", "num"}
    /\ t.ip_address.k \in {"absent", "null", "str"}
    /\ t.merchant_category.k \in {"absent", "null", "str"}

\* C14: a transaction with a valid amount and timestamp whose optional
\* fields (latitude, longitude, ip_address, merchant_category) are absent or
\* None never makes detect_fraud fail: the call returns a verdict.
C14_OptionalFieldsTolerated ==
    (/\ pc = "done"
     /\ transaction_data.amount.k = "num"
     /\ transaction_data.timestamp.k = "ok"
     /\ OptionalFieldsWellTyped(transaction_data)) => result.kind = "verdict"

\* C15: amount 50, latitude and longitude missing, 03:00, category
\* 'gambling', no model available, combined on the normal path: exactly the
\* location rule (0.7), the time rule (0.5) and the merchant rule (0.7)
\* trigger, the rule aggregate is 1.9/3, fraud_probability is
\* 0.7 x 0.5 + 0.3 x 1.9/3 = 0.54 and is_fraud is false.
C15_Scenario ==
    (/\ IsVerdict
     /\ transaction_data.amount = Num(50)
     /\ IsNone(transaction_data.latitude) /\ IsNone(transaction_data.longitude)
     /\ transaction_data.timestamp = [k |-> "ok", v |-> 3]
     /\ transaction_data.merchant_category = [k |-> "str", v |-> "gambling"]
     /\ SucceededModels(result.ml_predictions) = {}
     /\ result.detection_method = "ensemble") =>
        LET rp == result.rule_predictions
        IN  /\ TriggeredRules(rp) = {"_location_rule", "_time_pattern_rule", "_merchant_risk_rule"}
            /\ 10 * rp["_location_rule"].risk_score = 7 * Unit
            /\ 10 * rp["_time_pattern_rule"].risk_score = 5 * Unit
            /\ 10 * rp["_merchant_risk_rule"].risk_score = 7 * Unit
            /\ 30 * result.risk_score = 19 * Unit
            /\ 100 * result.fraud_probability = 54 * Unit
            /\ result.is_fraud = FALSE

C15_Witness ==
    /\ IsVerdict
    /\ transaction_data.amount = Num(50)
    /\ transaction_data.latitude = Absent /\ transaction_data.longitude = Absent
    /\ transaction_data.timestamp = [k |-> "ok", v |-> 3]
    /\ transaction_data.merchant_category = [k |-> "str", v |-> "gambling"]
    /\ tasks = <<>>
    /\ DOMAIN result.ml_predictions = {}
    /\ result.detection_method = "ensemble"

\* the rule map _run_rules returned for transaction_data
RulesRan == pc = "done" /\ result.kind = "rules"

\* what a rule entry adds to rule_scores: its risk_score when triggered
Contribution(entry) == IF entry.triggered THEN entry.risk_score ELSE 0

\* C16: the amount rule triggers with 0.8 when amount > 10,000, with 0.6 when
\* 5,000 < amount <= 10,000, and does not trigger when amount <= 5,000 (the
\* boundaries 5,000 and 10,000 fall in the lower tier); what it contributes
\* to the rule aggregate does not decrease when the amount grows, and
\* increases when the amount passes 10,000.
C16_AmountTiers ==
    (RulesRan /\ transaction_data.amount.k = "num") =>
        LET a == transaction_data.amount.v
            e == result.rule_predictions["_amount_threshold_rule"]
        IN  /\ a > 10000 => (e.triggered /\ 10 * e.risk_score = 8 * Unit)
            /\ (5000 < a /\ a <= 10000) => (e.triggered /\ 10 * e.risk_score = 6 * Unit)
            /\ a <= 5000 => ~e.triggered
            /\ \A b \in RuleAmounts :
                  (b.k = "num" /\ b.v <= a) =>
                      LET lower == Contribution(_amount_threshold_rule(
                                       [transaction_data EXCEPT !.amount = b]))
                      IN  /\ lower <= Contribution(e)
                          /\ (b.v <= 10000 /\ a > 10000) => lower < Contribution(e)

C16_Witness ==
    /\ RulesRan
    /\ transaction_data.amount = Num(10000)
    /\ result.rule_predictions["_amount_threshold_rule"].triggered
    /\ result.rule_predictions["_amount_threshold_rule"].risk_score = P(6)

\* |x| of a numeric field
AbsOf(f) == IF f.v < 0 THEN 0 - f.v ELSE f.v

\* C17: the location rule triggers with 0.7 exactly when latitude or
\* longitude is missing, with 0.9 exactly when both are present and
\* |lat| > 90 or |lon| > 180, and does not trigger otherwise; a missing
\* coordinate takes precedence over an invalid one.
C17_LocationRule ==
    (/\ RulesRan
     /\ transaction_data.latitude.k \in {"absent", "null", "num"}
     /\ transaction_data.longitude.k \in {"absent", "null", "num"}) =>
        LET lat == transaction_data.latitude
            lon == transaction_data.longitude
            e == result.rule_predictions["_location_rule"]
            missing == lat.k # "num" \/ lon.k # "num"
            invalid == ~missing /\ (AbsOf(lat) > 90 \/ AbsOf(lon) > 180)
        IN  /\ DOMAIN e # {"error"}
            /\ missing <=> (e.triggered /\ 10 * e.risk_score = 7 * Unit)
            /\ invalid <=> (e.triggered /\ 10 * e.risk_score = 9 * Unit)
            /\ (~missing /\ ~invalid) <=> ~e.triggered

C17_Witness ==
    /\ RulesRan
    /\ transaction_data.latitude = Null
    /\ transaction_data.longitude = Num(181)
    /\ result.rule_predictions["_location_rule"].triggered
    /\ result.rule_predictions["_location_rule"].risk_score = P(7)

\* C18: a detect_fraud call on an engine whose preprocessor is not fitted
\* fails with NotFitted and returns no verdict.
C18_NotFittedIsFatal ==
    (pc = "done" /\ ~preprocessor) =>
        /\ result.kind = "raised"
        /\ result.exception = "NotFitted"

\* the encoders of tp that meet a value of df their fit has not seen
UnseenEncoders ==
    {i \in 1..Len(tp.encoders) :
        /\ df[tp.encoders[i].feature] # NoColumn
        /\ FillNa(RowValue(df[tp.encoders[i].feature])) \notin tp.encoders[i].classes}

\* C19: transform of a fitted preprocessor does not fail on a categorical
\* value unseen at fit time, whatever the training frame held; the value is
\* encoded as the bucket 'unknown'.
C19_UnseenIsUnknown ==
    /\ transformed.kind = "raised" =>
          \/ transformed.exception = "KeyError"
          \/ transformed.message = "Preprocessor must be fitted before transforming"
    /\ transformed.kind = "array" =>
          \A i \in UnseenEncoders :
              /\ "unknown" \in tp.encoders[i].classes
              /\ \E j \in 1..Len(transformed.encoded) :
                    /\ transformed.encoded[j].name = Encoded(tp.encoders[i].feature)
                    /\ transformed.encoded[j].code =
                          LabelEncoderTransform(tp.encoders[i].classes, "unknown").code

\* C20: the array transform returns has exactly the columns of
\* feature_names, in that order; it is never shorter.
C20_FittedSchema ==
    transformed.kind = "array" =>
        /\ Len(transformed.columns) = Len(tp.feature_names)
        /\ \A i \in 1..Len(tp.feature_names) :
              transformed.columns[i] = tp.feature_names[i]

\* the rule maps of transactions that differ from transaction_data in the
\* amount and the merchant category
OtherRuleOutcomes ==
    {_run_rules([transaction_data EXCEPT !.amount = a, !.merchant_category = mc]) :
        a \in AmountValues, mc \in MerchantValues}

\* C23: on the normal combination path confidence_score is the mean of
\* confidence_score over the models that succeeded, 0.5 when none did, and
\* the same whatever the rules returned.
C23_ConfidenceFromModels ==
    (IsVerdict /\ result.detection_method = "ensemble") =>
        LET ml == result.ml_predictions
            S == SucceededModels(ml)
        IN  /\ IF S = {} THEN 2 * result.confidence_score = Unit
               ELSE Cardinality(S) * result.confidence_score
                        = SumOver(S, [m \in S |-> ml[m].confidence_score])
            /\ \A rp \in OtherRuleOutcomes :
                  _ensemble_predictions(ml, rp).confidence_score = result.confidence_score

C23_Witness ==
    /\ IsVerdict
    /\ result.detection_method = "ensemble"
    /\ \E m, n \in SucceededModels(result.ml_predictions) :
          result.ml_predictions[m].confidence_score # result.ml_predictions[n].confidence_score
    /\ ErroredEntries(result.ml_predictions) # {}
    /\ TriggeredRules(result.rule_predictions) # {}
    /\ \E rp \in OtherRuleOutcomes :
          _ensemble_predictions(result.ml_predictions, rp).fraud_probability
              # result.fraud_probability

\* C25: a reload one of whose model files fails to load leaves the registry
\* as it was.
C25_FailedReloadKeepsRegistry ==
    [][\A files \in [1..Len(ModelNames) -> FileStates] :
          ((\E i \in 1..Len(ModelNames) : files[i] = "raises") /\ ReloadModels(files))
              => models' = models]_vars

\* C26: the fan-in records one result per dispatched model, under the name
\* of the model that produced it, also when the registry changed during the
\* await.
C26_ResultsByProducer ==
    (IsVerdict /\ processed_data # "none") =>
        DOMAIN result.ml_predictions = {tasks[i].name : i \in 1..Len(tasks)}

C28_NoModelNoFraud ==
    (IsVerdict /\ SucceededModels(result.ml_predictions) = {}) =>
        /\ result.is_fraud = FALSE
        /\ 38 * Unit <= 100 * result.fraud_probability
        /\ 100 * result.fraud_probability <= 62 * Unit

C28_Witness ==
    /\ IsVerdict
    /\ SucceededModels(result.ml_predictions) = {}
    /\ ErroredEntries(result.ml_predictions) # {}
    /\ result.detection_method = "ensemble"
    /\ 100 * result.fraud_probability = 62 * Unit

\* C29: for a transaction with a numeric amount, risk_factors contains
\* 'missing_location' exactly when the location rule triggered with
\* 'Missing location data'.
C29_MissingLocationAgrees ==
    (IsVerdict /\ transaction_data.amount.k = "num") =>
        LET e == result.rule_predictions["_location_rule"]
        IN  ("missing_location" \in result.risk_metrics.risk_factors)
                <=> (/\ "triggered" \in DOMAIN e
                     /\ e.triggered
                     /\ e.reason = "Missing location data")

----------------------------------------------------------------------------
(* VelocityChecker *)

Elems(seq) == {seq[i] : i \in DOMAIN seq}

Occurrences(seq, x) == Cardinality({i \in DOMAIN seq : seq[i] = x})

\* the step by which a detect call that had both fields leaves detect
DetectEnds(th) ==
    /\ threads[th].pc \in {"clean", "assign", "append", "check"}
    /\ threads'[th].pc \in {"returned", "raised"}

\* C30: when detect(user, t) ends, the history of user holds t and only
\* timestamps later than t - 24h; a timestamp leaves a history only by a
\* call whose window it has left; a call without user_id or timestamp
\* returns None and changes no history.
C30_HistoryKept ==
    [][\A th \in 1..NumThreads :
          /\ DetectEnds(th) =>
                LET t == threads[th].timestamp
                    h == transaction_history'[threads[th].user_id]
                IN  /\ t \in Elems(h)
                    /\ \A x \in Elems(h) : x.tz = t.tz /\ LaterThan(x, t, HoursKept * 60)
          /\ (threads[th].pc = "idle" /\ threads'[th].pc = "returned") =>
                /\ threads'[th].ret = "None"
                /\ transaction_history' = transaction_history
          /\ \A u \in Users : \A x \in Elems(transaction_history[u]) :
                Occurrences(transaction_history'[u], x) < Occurrences(transaction_history[u], x)
                => \E o \in 1..NumThreads :
                      /\ lock = o
                      /\ threads[o].user_id = u
                      /\ x.tz = threads[o].timestamp.tz
                      /\ ~LaterThan(x, threads[o].timestamp, HoursKept * 60)]_vars

----------------------------------------------------------------------------
(* Aggregate features at inference *)

\* C24: the entries transform returns for a record are those it returns
\* for that record given alone, whatever other records are in the frame.
C24_VectorOfRecordAlone ==
    (vectors.kind = "array") =>
        \A i \in 1..Len(batch) :
            vectors.rows[i] = transform_rows(tp, <<batch[i]>>).rows[1]

----------------------------------------------------------------------------
(* Phases of a call *)

\* phases is the first n names of PhaseNames
IsPrefixOfPhases(n) == n <= Len(PhaseNames) /\ phases = [k \in 1..n |-> PhaseNames[k]]

\* C21: the phases of a call are entered in the order Preprocessing, model
\* inference, rule evaluation, Combination, RiskMetrics, counter update, and
\* once Combination has been entered every dispatched prediction task has
\* returned or raised and the rules have been evaluated.
C21_PhaseOrder ==
    (pc # "idle") =>
        /\ IsPrefixOfPhases(Len(phases))
        /\ (Len(phases) >= 4) =>
              /\ Len(finished) = Len(tasks)
              /\ \A i \in 1..Len(tasks) : finished[i].done

\* a call over two or more models went through every phase, and one of its
\* predictions raised
C21_Witness ==
    /\ pc = "done"
    /\ result.kind = "verdict"
    /\ phases = PhaseNames
    /\ Len(tasks) >= 2
    /\ \E i \in 1..Len(tasks) : finished[i].raised
    /\ \E i \in 1..Len(tasks) : ~finished[i].raised

\* C22: no step of a score call changes the registry, the preprocessor's
\* fitted state or the fitted scaler of a registered model.
C22_OnlyCounterChanges ==
    [][<<models, preprocessor, scaler>>' = <<models, preprocessor, scaler>>]_vars

====
